---- MODULE Spec2Model ----
(***************************************************************************)
(* Model of the stand-up facilitator frontend:                             *)
(*   - JoinMeetingPage.js : the join flow (meeting info, name validation,  *)
(*     navigation to the room view);                                       *)
(*   - MeetingRoom.js     : the room session controller (credential        *)
(*     request, media-service session, SDK event handlers, controls).      *)
(* Each page is one browser page load; SpecJoin and SpecRoom are their     *)
(* state machines.  Every await of the source is a point where the model   *)
(* lets other handlers and continuations interleave.                       *)
(***************************************************************************)
EXTENDS Integers, Sequences, FiniteSets, TLC

\* ------------------------------------------------------------------ bounds
MaxNameLen == 2     \* longest text typed into the name field
MaxInflight == 2    \* validation requests in flight at once
MaxToggles == 1     \* microphone/camera toggle calls in flight at once
MaxParticipants == 2  \* longest participant list

\* ------------------------------------------------------------- join page
VARIABLES
    name,              \* useState('')     : text of the name field
    isValidating,      \* useState(false)
    validationResult,  \* useState(null)
    meetingInfo,       \* useState(null)
    isLoading,         \* useState(true)
    infoPending,       \* fetches of /api/meeting-info still in flight
    valReqs,           \* bodies of /api/validate-participant requests in flight
    href,              \* window.location.href once joinMeeting has navigated
    lastJoin           \* the handler or continuation that ran last, and how it
                       \* ended (alert shown, request sent, exception, ...)

joinVars == <<name, isValidating, validationResult, meetingInfo, isLoading,
              infoPending, valReqs, href, lastJoin>>

\* ------------------------------------------------------ room view state
VARIABLES
    urlName,           \* urlParams.get('name') || ''
    view,              \* "loading" before the mount effect, then "mounted";
                       \* "unmounted" after React unmounts the component;
                       \* "left" once window.location.href = '/' was assigned
    isConnected,       \* useState(false)
    isConnecting,      \* useState(false)
    error,             \* useState(null)
    connectionStatus,  \* useState('Initializing...')
    localParticipant,  \* useState(null): the room whose localParticipant is held
    roomRef,           \* useRef(null): 0 is null, else the room of that run
    pc,                \* per run of connectToRoom: the await it is suspended at
    rooms,             \* per run: the Room object it created, as the SDK sees it
    lastRoom           \* the handler or continuation that ran last, and how it ended

roomVars == <<urlName, view, isConnected, isConnecting, error, connectionStatus,
              localParticipant, roomRef, pc, rooms, lastRoom>>

VARIABLES
    isAudioEnabled,    \* useState(true)
    isVideoEnabled,    \* useState(true)
    toggles,           \* setMicrophoneEnabled / setCameraEnabled calls in flight
    participants       \* useState([]): identities of the remote participants

ctlVars == <<isAudioEnabled, isVideoEnabled, toggles>>

VARIABLES
    published          \* per Room: what its localParticipant publishes

pubVars == <<published>>
partVars == <<participants>>

VARIABLES
    isSpeakerEnabled,  \* useState(true)
    subscribed,        \* remote tracks the SDK has subscribed and not withdrawn
    remoteVideosRef,   \* useRef({}): identity -> the video element stored for it
    appended,          \* video elements appended to a participant's container
    audioEls,          \* audio elements created for a track and still attached
    audioMuted         \* the audio elements whose muted attribute is set

trackVars == <<isSpeakerEnabled, subscribed, remoteVideosRef, appended,
               audioEls, audioMuted>>

\* What the connection lifecycle leaves alone.
lifecycleFrame == <<ctlVars, pubVars, partVars, trackVars>>

\* Everything of the room view, which the join page never touches.
roomSide == <<roomVars, ctlVars, pubVars, partVars, trackVars>>

Chars == {" ", "D"}

RECURSIVE SeqsUpTo(_)
SeqsUpTo(n) == IF n = 0 THEN {<<>>}
               ELSE SeqsUpTo(n - 1) \cup [1..n -> Chars]

Names == SeqsUpTo(MaxNameLen)

\* String.prototype.trim: drops leading and trailing white space.
RECURSIVE TrimLeft(_)
TrimLeft(s) == IF s # <<>> /\ Head(s) = " " THEN TrimLeft(Tail(s)) ELSE s

RECURSIVE TrimRight(_)
TrimRight(s) == IF s # <<>> /\ s[Len(s)] = " "
                THEN TrimRight(SubSeq(s, 1, Len(s) - 1)) ELSE s

Trim(s) == TrimRight(TrimLeft(s))

\* encodeURIComponent on the model's alphabet: a space becomes %20.
EncodeURIComponent(s) == [i \in DOMAIN s |-> IF s[i] = " " THEN "%20" ELSE s[i]]

\* A nullable value is a sequence of length at most one: None is null or
\* undefined, Some(x) is the value x.
None == <<>>
Some(x) == <<x>>
The(o) == o[1]

DefaultRoom == "daily-standup-room"
RoomNames == {"", "room-A"}            \* "" : roomName absent (falsy)

\* What GET /api/meeting-info may answer.
MeetingInfos == [status : {"active", "inactive"}, roomName : RoomNames]

\* What POST /api/validate-participant may answer for a request body n:
\* participant is optional; when present it carries the validated name.
ValidationResults(n) == [valid : BOOLEAN, hasParticipant : BOOLEAN, pname : {n}]

Ran(op, outcome) == [op |-> op, outcome |-> outcome]

\* The page is interactive once the spinner is gone and until it navigates.
PageShown == ~isLoading /\ href = None

\* meetingInfo?.status
StatusOf(mi) == IF mi = None THEN "undefined" ELSE The(mi).status

\* validationResult?.valid
IsValid(vr) == vr # None /\ The(vr).valid

\* meetingInfo?.roomName || 'daily-standup-room'
RoomNameOrDefault(mi) == IF mi # None /\ The(mi).roomName # ""
                         THEN The(mi).roomName ELSE DefaultRoom

\* The join button's disabled attribute.
JoinDisabled == isValidating \/ Trim(name) = <<>> \/ StatusOf(meetingInfo) # "active"

\* fetchMeetingInfo, after its awaits: the response parsed.
FetchMeetingInfoOk(data) ==
    /\ infoPending > 0 /\ href = None
    /\ infoPending' = infoPending - 1
    /\ meetingInfo' = Some(data)
    /\ isLoading' = FALSE
    /\ lastJoin' = Ran("fetchMeetingInfo", "loaded")
    /\ UNCHANGED <<name, isValidating, validationResult, valReqs, href>>
    /\ UNCHANGED roomSide

\* fetchMeetingInfo, catch branch.
FetchMeetingInfoFail ==
    /\ infoPending > 0 /\ href = None
    /\ infoPending' = infoPending - 1
    /\ isLoading' = FALSE
    /\ lastJoin' = Ran("fetchMeetingInfo", "failed")
    /\ UNCHANGED <<name, isValidating, validationResult, meetingInfo, valReqs,
                   href>>
    /\ UNCHANGED roomSide

\* onChange of the name field.
SetName(n) ==
    /\ PageShown
    /\ name' = n
    /\ lastJoin' = Ran("setName", "set")
    /\ UNCHANGED <<isValidating, validationResult, meetingInfo, isLoading,
                   infoPending, valReqs, href>>
    /\ UNCHANGED roomSide

\* validateParticipant without its empty-name guard.
ValidateParticipantUnguarded(op) ==
    /\ isValidating' = TRUE
    /\ valReqs' = Append(valReqs, Trim(name))
    /\ lastJoin' = Ran(op, "validation requested")

\* validateParticipant up to its first await, called from the handler `op`.
ValidateParticipant(op) ==
    IF Trim(name) = <<>>
    THEN /\ lastJoin' = Ran(op, "alert: Please enter your name")
         /\ UNCHANGED <<isValidating, valReqs>>
    ELSE /\ isValidating' = TRUE
         /\ valReqs' = Append(valReqs, Trim(name))
         /\ lastJoin' = Ran(op, "validation requested")

\* joinMeeting up to its first await (nothing follows the await), called
\* from the handler `op`.
JoinMeeting(op) ==
    IF ~IsValid(validationResult)
    THEN /\ ValidateParticipant(op)
         /\ UNCHANGED href
    ELSE IF ~The(validationResult).hasParticipant
    THEN \* validationResult.participant.name on undefined
         /\ lastJoin' = Ran(op, "TypeError")
         /\ UNCHANGED <<href, isValidating, valReqs>>
    ELSE /\ href' = Some([name |-> EncodeURIComponent(The(validationResult).pname),
                          room |-> RoomNameOrDefault(meetingInfo)])
         /\ lastJoin' = Ran(op, "navigated")
         /\ UNCHANGED <<isValidating, valReqs>>

\* onClick of the join button; a disabled button delivers no click.
ClickJoin ==
    /\ PageShown /\ ~JoinDisabled
    /\ Len(valReqs) < MaxInflight
    /\ JoinMeeting("clickJoin")
    /\ UNCHANGED <<name, validationResult, meetingInfo, isLoading, infoPending>>
    /\ UNCHANGED roomSide

\* onKeyPress of the name field with e.key === 'Enter'.
PressEnter ==
    /\ PageShown
    /\ Len(valReqs) < MaxInflight
    /\ JoinMeeting("pressEnter")
    /\ UNCHANGED <<name, validationResult, meetingInfo, isLoading, infoPending>>
    /\ UNCHANGED roomSide

RemoveAt(s, i) == SubSeq(s, 1, i - 1) \o SubSeq(s, i + 1, Len(s))

\* validateParticipant after its awaits: response parsed, then finally.
ValidateResponseOk(i, valid, hasParticipant) ==
    /\ href = None
    /\ i \in DOMAIN valReqs
    /\ valReqs' = RemoveAt(valReqs, i)
    /\ validationResult' = Some([valid |-> valid, hasParticipant |-> hasParticipant,
                                 pname |-> valReqs[i]])
    /\ isValidating' = FALSE
    /\ lastJoin' = Ran("validateParticipant", "result set")
    /\ UNCHANGED <<name, meetingInfo, isLoading, infoPending, href>>
    /\ UNCHANGED roomSide

\* validateParticipant, catch branch, then finally.
ValidateResponseFail(i) ==
    /\ href = None
    /\ i \in DOMAIN valReqs
    /\ valReqs' = RemoveAt(valReqs, i)
    /\ isValidating' = FALSE
    /\ lastJoin' = Ran("validateParticipant", "alert: Failed to validate participant")
    /\ UNCHANGED <<name, validationResult, meetingInfo, isLoading, infoPending,
                   href>>
    /\ UNCHANGED roomSide

NextJoin ==
    \/ \E data \in MeetingInfos : FetchMeetingInfoOk(data)
    \/ FetchMeetingInfoFail
    \/ \E n \in Names : SetName(n)
    \/ ClickJoin
    \/ PressEnter
    \/ \E i \in 1..MaxInflight, v \in BOOLEAN, p \in BOOLEAN :
          ValidateResponseOk(i, v, p)
    \/ \E i \in 1..MaxInflight : ValidateResponseFail(i)

\* ------------------------------------------------------------- room view
\* The mount effect runs once, or twice under reactStrictMode: run 2 is the
\* second invocation.  A run's Room object carries the run's number.
Runs == {1, 2}

UrlNames == {<<>>, <<" ">>, <<"D">>}

NoRoom == [state |-> "none", disconnects |-> 0]

\* What a Room's local participant publishes: nothing when the Room is
\* created, both after enableCameraAndMicrophone.
NonePublished == [mic |-> FALSE, cam |-> FALSE]
BothPublished == [mic |-> TRUE, cam |-> TRUE]

\* States in which the SDK holds, or is opening, a session with the service.
Open == {"connecting", "connected"}

\* !participantName || participantName.trim() === '' without the trim.
IsBlankNameNoTrim(n) == n = <<>>

\* !participantName || participantName.trim() === ''
IsBlankName(n) == n = <<>> \/ Trim(n) = <<>>

\* React applies a state setter only while the component is mounted; the
\* page keeps running after location.href is assigned, until it unloads.
Alive == view \in {"mounted", "left"}

\* The catch block of connectToRoom.
Catch(msg) ==
    /\ error' = IF Alive THEN Some(msg) ELSE error
    /\ isConnecting' = IF Alive THEN FALSE ELSE isConnecting
    /\ connectionStatus' = IF Alive THEN "Connection failed" ELSE connectionStatus

\* disconnectFromRoom that forgets to clear the reference.
DisconnectFromRoomKeepsRef ==
    IF roomRef # 0
    THEN /\ rooms' = [rooms EXCEPT ![roomRef] =
                        [state |-> IF @.state \in Open THEN "closing" ELSE @.state,
                         disconnects |-> @.disconnects + 1]]
         /\ UNCHANGED roomRef
    ELSE UNCHANGED <<rooms, roomRef>>

\* disconnectFromRoom: room.disconnect() closes the session; the SDK emits
\* its Disconnected event afterwards ("closing" until then).
DisconnectFromRoom ==
    IF roomRef # 0
    THEN /\ rooms' = [rooms EXCEPT ![roomRef] =
                        [state |-> IF @.state \in Open THEN "closing" ELSE @.state,
                         disconnects |-> @.disconnects + 1]]
         /\ roomRef' = 0
    ELSE UNCHANGED <<rooms, roomRef>>

TeardownOutcome == IF roomRef # 0 THEN "closed session" ELSE "no session"

\* The mount effect.  With strict = TRUE React runs effect, cleanup, effect
\* in one commit: the cleanup's disconnectFromRoom finds roomRef null (no
\* run has passed its first await), and connectToRoom is started twice.
\* connectToRoom up to its first await: its own name check (whose throw goes
\* to its catch block), then the fetch.
MountEffect(strict) ==
    /\ view = "loading"
    /\ view' = "mounted"
    /\ IF IsBlankName(urlName)
       THEN /\ error' = Some("Participant name is required")
            /\ lastRoom' = Ran("mountEffect", "name required")
            /\ UNCHANGED <<isConnecting, connectionStatus, pc>>
       ELSE IF IsBlankName(urlName)
       THEN /\ error' = Some("Participant name is required")
            /\ isConnecting' = FALSE
            /\ connectionStatus' = "Connection failed"
            /\ lastRoom' = Ran("mountEffect", "connectToRoom threw")
            /\ UNCHANGED pc
       ELSE /\ isConnecting' = TRUE
            /\ connectionStatus' = "Getting access token..."
            /\ pc' = [a \in Runs |-> IF a = 1 \/ strict THEN "fetch" ELSE "idle"]
            /\ lastRoom' = Ran("mountEffect", IF strict THEN "connectToRoom twice"
                                                     ELSE "connectToRoom")
            /\ UNCHANGED error
    /\ UNCHANGED <<urlName, isConnected, localParticipant, roomRef, rooms>>
    /\ UNCHANGED <<joinVars, lifecycleFrame>>

\* fetch('/api/generate-token') rejects (network failure).
FetchRejects(a) ==
    /\ pc[a] = "fetch"
    /\ pc' = [pc EXCEPT ![a] = "failed"]
    /\ Catch("request failed")
    /\ lastRoom' = Ran("tokenResponse", "rejected")
    /\ UNCHANGED <<urlName, view, isConnected, localParticipant, roomRef, rooms>>
    /\ UNCHANGED <<joinVars, lifecycleFrame>>

\* The token response handling that ignores tokenResponse.ok.
TokenResponseIgnoresOk(a, ok) ==
    /\ pc[a] = "fetch"
    /\ pc' = [pc EXCEPT ![a] = "json"]
    /\ lastRoom' = Ran("tokenResponse", IF ok THEN "ok" ELSE "not ok")
    /\ UNCHANGED <<urlName, view, isConnected, isConnecting, error,
                   connectionStatus, localParticipant, roomRef, rooms>>
    /\ UNCHANGED <<joinVars, lifecycleFrame>>

\* The token response arrives: !tokenResponse.ok throws.
TokenResponse(a, ok) ==
    /\ pc[a] = "fetch"
    /\ IF ok
       THEN /\ pc' = [pc EXCEPT ![a] = "json"]
            /\ lastRoom' = Ran("tokenResponse", "ok")
            /\ UNCHANGED <<isConnecting, error, connectionStatus>>
       ELSE /\ pc' = [pc EXCEPT ![a] = "failed"]
            /\ Catch("Failed to get access token")
            /\ lastRoom' = Ran("tokenResponse", "not ok")
    /\ UNCHANGED <<urlName, view, isConnected, localParticipant, roomRef, rooms>>
    /\ UNCHANGED <<joinVars, lifecycleFrame>>

\* tokenResponse.json() settles.
TokenJson(a, ok) ==
    /\ pc[a] = "json"
    /\ IF ok
       THEN /\ pc' = [pc EXCEPT ![a] = "import"]
            /\ connectionStatus' = IF Alive THEN "Connecting to meeting room..."
                                            ELSE connectionStatus
            /\ lastRoom' = Ran("tokenJson", "parsed")
            /\ UNCHANGED <<isConnecting, error>>
       ELSE /\ pc' = [pc EXCEPT ![a] = "failed"]
            /\ Catch("request failed")
            /\ lastRoom' = Ran("tokenJson", "rejected")
    /\ UNCHANGED <<urlName, view, isConnected, localParticipant, roomRef, rooms>>
    /\ UNCHANGED <<joinVars, lifecycleFrame>>

\* import('livekit-client') settles; on success new Room, roomRef.current
\* = room, the listeners, and the call of room.connect.
SdkImport(a, ok) ==
    /\ pc[a] = "import"
    /\ IF ok
       THEN /\ pc' = [pc EXCEPT ![a] = "connect"]
            /\ rooms' = [rooms EXCEPT ![a] = [state |-> "connecting", disconnects |-> 0]]
            /\ roomRef' = a
            /\ lastRoom' = Ran("sdkImport", "room created")
            /\ UNCHANGED <<isConnecting, error, connectionStatus>>
       ELSE /\ pc' = [pc EXCEPT ![a] = "failed"]
            /\ Catch("request failed")
            /\ lastRoom' = Ran("sdkImport", "rejected")
            /\ UNCHANGED <<rooms, roomRef>>
    /\ UNCHANGED <<urlName, view, isConnected, localParticipant>>
    /\ UNCHANGED <<joinVars, lifecycleFrame>>

\* room.connect resolves: the SDK emits Connected (the listener of lines
\* 88-94), then the continuation calls enableCameraAndMicrophone.
ConnectResolves(a) ==
    /\ pc[a] = "connect" /\ rooms[a].state = "connecting"
    /\ rooms' = [rooms EXCEPT ![a].state = "connected"]
    /\ pc' = [pc EXCEPT ![a] = "enable"]
    /\ isConnected' = IF Alive THEN TRUE ELSE isConnected
    /\ isConnecting' = IF Alive THEN FALSE ELSE isConnecting
    /\ connectionStatus' = IF Alive THEN "Connected" ELSE connectionStatus
    /\ localParticipant' = IF Alive THEN a ELSE localParticipant
    /\ lastRoom' = Ran("connect", "connected")
    /\ UNCHANGED <<urlName, view, error, roomRef>>
    /\ UNCHANGED <<joinVars, lifecycleFrame>>

\* room.connect rejects: the service refused, or disconnect() was called
\* while connecting.
ConnectRejects(a) ==
    /\ pc[a] = "connect" /\ rooms[a].state \in {"connecting", "closing", "disconnected"}
    /\ rooms' = [rooms EXCEPT ![a].state =
                    IF @ = "connecting" THEN "disconnected" ELSE @]
    /\ pc' = [pc EXCEPT ![a] = "failed"]
    /\ Catch("connect failed")
    /\ lastRoom' = Ran("connect", "rejected")
    /\ UNCHANGED <<urlName, view, isConnected, localParticipant, roomRef>>
    /\ UNCHANGED <<joinVars, lifecycleFrame>>

\* enableCameraAndMicrophone settles; on success the local video is attached.
EnableMedia(a, ok) ==
    /\ pc[a] = "enable"
    /\ IF ok
       THEN /\ pc' = [pc EXCEPT ![a] = "done"]
            /\ published' = [published EXCEPT ![a] = BothPublished]
            /\ lastRoom' = Ran("enableMedia", "enabled")
            /\ UNCHANGED <<isConnecting, error, connectionStatus>>
       ELSE /\ pc' = [pc EXCEPT ![a] = "failed"]
            /\ Catch("media failed")
            /\ lastRoom' = Ran("enableMedia", "rejected")
            /\ UNCHANGED published
    /\ UNCHANGED <<urlName, view, isConnected, localParticipant, roomRef, rooms>>
    /\ UNCHANGED <<joinVars, ctlVars, partVars, trackVars>>

\* RoomEvent.Disconnected: after disconnect() ("closing"), or when the
\* transport drops a connected session.
DisconnectedEvent(a) ==
    /\ rooms[a].state \in {"closing", "connected"}
    /\ rooms' = [rooms EXCEPT ![a].state = "disconnected"]
    /\ isConnected' = IF Alive THEN FALSE ELSE isConnected
    /\ connectionStatus' = IF Alive THEN "Disconnected" ELSE connectionStatus
    /\ lastRoom' = Ran("disconnectedEvent", "handled")
    /\ UNCHANGED <<urlName, view, isConnecting, error, localParticipant, roomRef, pc>>
    /\ UNCHANGED <<joinVars, lifecycleFrame>>

\* React unmounts the component: the effect's cleanup, if one was returned.
Unmount ==
    /\ view = "mounted"
    /\ view' = "unmounted"
    /\ IF IsBlankName(urlName)
       THEN /\ lastRoom' = Ran("unmount", "no cleanup")
            /\ UNCHANGED <<rooms, roomRef>>
       ELSE /\ DisconnectFromRoom
            /\ lastRoom' = Ran("unmount", TeardownOutcome)
    /\ UNCHANGED <<urlName, isConnected, isConnecting, error, connectionStatus,
                   localParticipant, pc>>
    /\ UNCHANGED <<joinVars, lifecycleFrame>>

\* The leave button (not rendered on the error page).
LeaveRoom ==
    /\ view \in {"mounted", "left"} /\ error = None
    /\ view' = "left"
    /\ DisconnectFromRoom
    /\ lastRoom' = Ran("leaveRoom", TeardownOutcome)
    /\ UNCHANGED <<urlName, isConnected, isConnecting, error, connectionStatus,
                   localParticipant, pc>>
    /\ UNCHANGED <<joinVars, lifecycleFrame>>

\* The error page's "Back to Join Page" button.
BackToJoin ==
    /\ view = "mounted" /\ error # None
    /\ view' = "left"
    /\ lastRoom' = Ran("backToJoin", "navigated")
    /\ UNCHANGED <<urlName, isConnected, isConnecting, error, connectionStatus,
                   localParticipant, roomRef, pc, rooms>>
    /\ UNCHANGED <<joinVars, lifecycleFrame>>

NextRoom ==
    \/ \E strict \in BOOLEAN : MountEffect(strict)
    \/ \E a \in Runs : FetchRejects(a)
    \/ \E a \in Runs, ok \in BOOLEAN : TokenResponse(a, ok)
    \/ \E a \in Runs, ok \in BOOLEAN : TokenJson(a, ok)
    \/ \E a \in Runs, ok \in BOOLEAN : SdkImport(a, ok)
    \/ \E a \in Runs : ConnectResolves(a)
    \/ \E a \in Runs : ConnectRejects(a)
    \/ \E a \in Runs, ok \in BOOLEAN : EnableMedia(a, ok)
    \/ \E a \in Runs : DisconnectedEvent(a)
    \/ Unmount
    \/ LeaveRoom
    \/ BackToJoin

\* ------------------------------------------------- controls of the room
Idents == {"neha", "p1"}

\* The remote tracks of the model: a camera, a screen share and a
\* microphone published by one participant.
Tracks == {"cam", "screen", "mic"}
TrackKind(t) == IF t = "mic" THEN "audio" ELSE "video"
TrackOwner(t) == "neha"
NoElement == "none"

\* document.getElementById(`participant-${identity}`): the tile is rendered
\* for the entries of the participants list, on the room page only.
HasContainer(list, id) ==
    /\ view \in {"mounted", "left"} /\ error = None
    /\ \E i \in 1..Len(list) : list[i] = id

\* toggleAudio / toggleVideo up to the await: no session, no call.
ToggleStart(kind) ==
    /\ view = "mounted" /\ error = None
    /\ IF roomRef = 0
       THEN /\ lastRoom' = Ran(kind, "no session")
            /\ UNCHANGED toggles
       ELSE /\ Len(toggles) < MaxToggles
            /\ toggles' = Append(toggles,
                  [kind |-> kind,
                   room |-> roomRef,
                   shown |-> IF kind = "toggleAudio" THEN isAudioEnabled
                                                     ELSE isVideoEnabled])
            /\ lastRoom' = Ran(kind, "called")
    /\ UNCHANGED <<isAudioEnabled, isVideoEnabled>>
    /\ UNCHANGED <<urlName, view, isConnected, isConnecting, error,
                   connectionStatus, localParticipant, roomRef, pc, rooms>>
    /\ UNCHANGED <<joinVars, pubVars, partVars, trackVars>>

\* setMicrophoneEnabled(!shown) / setCameraEnabled(!shown) succeeding on the
\* Room the handler read from roomRef.
SetEnabled(pub, call) ==
    IF call.kind = "toggleAudio"
    THEN [pub EXCEPT ![call.room].mic = ~call.shown]
    ELSE [pub EXCEPT ![call.room].cam = ~call.shown]

\* A toggle that flips the displayed state whether or not the call succeeded.
ToggleSettleFlipsAlways(i, ok) ==
    /\ i \in DOMAIN toggles
    /\ toggles' = RemoveAt(toggles, i)
    /\ lastRoom' = Ran(toggles[i].kind, IF ok THEN "resolved" ELSE "rejected")
    /\ isAudioEnabled' = IF Alive /\ toggles[i].kind = "toggleAudio"
                         THEN ~toggles[i].shown ELSE isAudioEnabled
    /\ isVideoEnabled' = IF Alive /\ toggles[i].kind = "toggleVideo"
                         THEN ~toggles[i].shown ELSE isVideoEnabled
    /\ published' = IF ok THEN SetEnabled(published, toggles[i]) ELSE published
    /\ UNCHANGED <<urlName, view, isConnected, isConnecting, error,
                   connectionStatus, localParticipant, roomRef, pc, rooms>>
    /\ UNCHANGED <<joinVars, partVars, trackVars>>

\* setMicrophoneEnabled / setCameraEnabled settles: on success the setter
\* is given the negation of the value the handler's render had; a rejection
\* is caught and logged.
ToggleSettle(i, ok) ==
    /\ i \in DOMAIN toggles
    /\ toggles' = RemoveAt(toggles, i)
    /\ lastRoom' = Ran(toggles[i].kind, IF ok THEN "resolved" ELSE "rejected")
    /\ isAudioEnabled' = IF ok /\ Alive /\ toggles[i].kind = "toggleAudio"
                         THEN ~toggles[i].shown ELSE isAudioEnabled
    /\ isVideoEnabled' = IF ok /\ Alive /\ toggles[i].kind = "toggleVideo"
                         THEN ~toggles[i].shown ELSE isVideoEnabled
    /\ published' = IF ok THEN SetEnabled(published, toggles[i]) ELSE published
    /\ UNCHANGED <<urlName, view, isConnected, isConnecting, error,
                   connectionStatus, localParticipant, roomRef, pc, rooms>>
    /\ UNCHANGED <<joinVars, partVars, trackVars>>

\* prev => [...prev, participant]
AddParticipant(prev, id) == Append(prev, id)

\* prev => prev.filter(p => p.identity !== participant.identity)
RemoveParticipant(prev, id) == SelectSeq(prev, LAMBDA x : x # id)

\* RoomEvent.ParticipantConnected from a connected room.
ParticipantConnected(a, id) ==
    /\ rooms[a].state = "connected"
    /\ Len(participants) < MaxParticipants
    /\ participants' = IF Alive THEN AddParticipant(participants, id)
                                ELSE participants
    /\ lastRoom' = Ran("participantConnected", id)
    /\ UNCHANGED <<urlName, view, isConnected, isConnecting, error,
                   connectionStatus, localParticipant, roomRef, pc, rooms>>
    /\ UNCHANGED <<joinVars, ctlVars, pubVars, trackVars>>

\* RoomEvent.ParticipantDisconnected from a connected room.
ParticipantDisconnected(a, id) ==
    /\ rooms[a].state = "connected"
    /\ participants' = IF Alive THEN RemoveParticipant(participants, id)
                                ELSE participants
    /\ appended' = {t \in appended : HasContainer(participants', TrackOwner(t))}
    /\ lastRoom' = Ran("participantDisconnected", id)
    /\ UNCHANGED <<urlName, view, isConnected, isConnecting, error,
                   connectionStatus, localParticipant, roomRef, pc, rooms>>
    /\ UNCHANGED <<isSpeakerEnabled, subscribed, remoteVideosRef, audioEls,
                   audioMuted>>
    /\ UNCHANGED <<joinVars, ctlVars, pubVars>>

\* RoomEvent.TrackSubscribed: a new element is created for the track. A
\* track is subscribed again only once the element of its previous
\* subscription is gone, so that a track names its element.
TrackSubscribed(a, t) ==
    /\ rooms[a].state = "connected"
    /\ t \notin subscribed
    /\ t \notin appended /\ t \notin audioEls
    /\ remoteVideosRef[TrackOwner(t)] # t
    /\ subscribed' = subscribed \cup {t}
    /\ IF TrackKind(t) = "video"
       THEN /\ remoteVideosRef' = [remoteVideosRef EXCEPT ![TrackOwner(t)] = t]
            /\ appended' = IF HasContainer(participants, TrackOwner(t))
                           THEN appended \cup {t}
                           ELSE appended
            /\ UNCHANGED audioEls
       ELSE /\ audioEls' = audioEls \cup {t}
            /\ UNCHANGED <<remoteVideosRef, appended>>
    /\ lastRoom' = Ran("trackSubscribed", t)
    /\ UNCHANGED <<urlName, view, isConnected, isConnecting, error,
                   connectionStatus, localParticipant, roomRef, pc, rooms>>
    /\ UNCHANGED <<isSpeakerEnabled, audioMuted>>
    /\ UNCHANGED <<joinVars, ctlVars, pubVars, partVars>>

\* RoomEvent.TrackUnsubscribed: track.detach(), then the element stored for
\* the participant is removed from the page and from the registry.
TrackUnsubscribed(a, t) ==
    /\ rooms[a].state = "connected"
    /\ t \in subscribed
    /\ subscribed' = subscribed \ {t}
    /\ audioEls' = audioEls \ {t}
    /\ audioMuted' = audioMuted \ {t}
    /\ IF remoteVideosRef[TrackOwner(t)] # NoElement
       THEN /\ appended' = appended \ {remoteVideosRef[TrackOwner(t)]}
            /\ remoteVideosRef' =
                   [remoteVideosRef EXCEPT ![TrackOwner(t)] = NoElement]
       ELSE UNCHANGED <<remoteVideosRef, appended>>
    /\ lastRoom' = Ran("trackUnsubscribed", t)
    /\ UNCHANGED <<urlName, view, isConnected, isConnecting, error,
                   connectionStatus, localParticipant, roomRef, pc, rooms>>
    /\ UNCHANGED isSpeakerEnabled
    /\ UNCHANGED <<joinVars, ctlVars, pubVars, partVars>>

\* document.querySelectorAll('audio'): the audio elements in the document.
\* The page renders none, and TrackSubscribed appends none.
AudioInDocument == {}

\* toggleSpeaker: flips the flag and sets muted on the audio elements of
\* the document to the value the flag had.
ToggleSpeaker ==
    /\ view = "mounted" /\ error = None
    /\ isSpeakerEnabled' = ~isSpeakerEnabled
    /\ audioMuted' = IF isSpeakerEnabled
                     THEN audioMuted \cup AudioInDocument
                     ELSE audioMuted \ AudioInDocument
    /\ lastRoom' = Ran("toggleSpeaker", IF isSpeakerEnabled THEN "off" ELSE "on")
    /\ UNCHANGED <<urlName, view, isConnected, isConnecting, error,
                   connectionStatus, localParticipant, roomRef, pc, rooms>>
    /\ UNCHANGED <<subscribed, remoteVideosRef, appended, audioEls>>
    /\ UNCHANGED <<joinVars, ctlVars, pubVars, partVars>>

NextControls ==
    \/ NextRoom
    \/ \E kind \in {"toggleAudio", "toggleVideo"} : ToggleStart(kind)
    \/ \E i \in 1..MaxToggles, ok \in BOOLEAN : ToggleSettle(i, ok)

NextParticipants ==
    \/ NextRoom
    \/ \E a \in Runs, id \in Idents : ParticipantConnected(a, id)
    \/ \E a \in Runs, id \in Idents : ParticipantDisconnected(a, id)

\* The participants who publish the tracks of the model.
Publishers == {TrackOwner(t) : t \in Tracks}

NextTracks ==
    \/ NextRoom
    \/ \E a \in Runs, id \in Publishers : ParticipantConnected(a, id)
    \/ \E a \in Runs, id \in Publishers : ParticipantDisconnected(a, id)
    \/ \E a \in Runs, t \in Tracks : TrackSubscribed(a, t)
    \/ \E a \in Runs, t \in Tracks : TrackUnsubscribed(a, t)
    \/ ToggleSpeaker

\* --------------------------------------------------------- specifications
vars == <<joinVars, roomVars, ctlVars, pubVars, partVars, trackVars>>

\* The join page, from its first render; the room view is not loaded.
InitJoinPage ==
    /\ name = <<>>
    /\ isValidating = FALSE
    /\ validationResult = None
    /\ meetingInfo = None
    /\ isLoading = TRUE
    /\ infoPending \in {1, 2}          \* the mount effect runs once, or twice
                                       \* under reactStrictMode (development)
    /\ valReqs = <<>>
    /\ href = None
    /\ lastJoin = Ran("mount", "fetching")
    /\ urlName = <<>> /\ view = "loading" /\ isConnected = FALSE
    /\ isConnecting = FALSE /\ error = None
    /\ connectionStatus = "Initializing..." /\ localParticipant = 0
    /\ roomRef = 0 /\ pc = [a \in Runs |-> "idle"]
    /\ rooms = [a \in Runs |-> NoRoom] /\ lastRoom = Ran("none", "none")
    /\ isAudioEnabled = TRUE /\ isVideoEnabled = TRUE /\ toggles = <<>>
    /\ published = [a \in Runs |-> NonePublished]
    /\ participants = <<>>
    /\ isSpeakerEnabled = TRUE
    /\ subscribed = {}
    /\ remoteVideosRef = [id \in Idents |-> NoElement]
    /\ appended = {}
    /\ audioEls = {}
    /\ audioMuted = {}

\* The room view, from its first render; the join page is not loaded.
InitRoomView ==
    /\ urlName \in UrlNames
    /\ view = "loading"
    /\ isConnected = FALSE
    /\ isConnecting = FALSE
    /\ error = None
    /\ connectionStatus = "Initializing..."
    /\ localParticipant = 0
    /\ roomRef = 0
    /\ pc = [a \in Runs |-> "idle"]
    /\ rooms = [a \in Runs |-> NoRoom]
    /\ lastRoom = Ran("load", "rendered")
    /\ isAudioEnabled = TRUE
    /\ isVideoEnabled = TRUE
    /\ toggles = <<>>
    /\ published = [a \in Runs |-> NonePublished]
    /\ participants = <<>>
    /\ isSpeakerEnabled = TRUE
    /\ subscribed = {}
    /\ remoteVideosRef = [id \in Idents |-> NoElement]
    /\ appended = {}
    /\ audioEls = {}
    /\ audioMuted = {}
    /\ name = <<>> /\ isValidating = FALSE /\ validationResult = None
    /\ meetingInfo = None /\ isLoading = TRUE /\ infoPending = 0
    /\ valReqs = <<>> /\ href = None /\ lastJoin = Ran("none", "none")

SpecJoin == InitJoinPage /\ [][NextJoin]_vars

\* The connection lifecycle of the room view.
SpecRoom == InitRoomView /\ [][NextRoom]_vars

\* The lifecycle together with the participant, track and speaker events.
SpecTracks == InitRoomView /\ [][NextTracks]_vars

\* The lifecycle together with the microphone and camera toggles.
SpecControls == InitRoomView /\ [][NextControls]_vars

\* The lifecycle together with the participant events of the SDK.
SpecParticipants == InitRoomView /\ [][NextParticipants]_vars

\* ------------------------------------------------- join page: properties
\* The handlers through which the page runs joinMeeting.
JoinTriggers == {"clickJoin", "pressEnter"}

\* C1: from a state in which the join control is disabled (a validation in
\* flight, an empty trimmed name, or a meeting status other than 'active',
\* MeetingInfo unset included) no way of triggering join starts a validation
\* request or a navigation.
C1_NoJoinWhileDisabled ==
    [][JoinDisabled => /\ Len(valReqs') <= Len(valReqs)
                       /\ href' = href]_vars

\* C3: joinMeeting run with a valid ValidationResult sends no validation
\* request and navigates to the room view with that result's participant
\* name and the meeting's room identifier (or the default).
C3_ValidJoinNavigatesDirectly ==
    [][(lastJoin'.op \in JoinTriggers /\ IsValid(validationResult))
         => /\ valReqs' = valReqs
            /\ href' = Some([name |-> EncodeURIComponent(The(validationResult).pname),
                             room |-> RoomNameOrDefault(meetingInfo)])]_vars

\* C4: validateParticipant (run by joinMeeting when there is no valid
\* result) with an empty or whitespace-only name sends no request and
\* leaves validationResult and isValidating as they were.
C4_BlankNameValidateIsInert ==
    [][(lastJoin'.op \in JoinTriggers /\ ~IsValid(validationResult)
          /\ Trim(name) = <<>>)
         => UNCHANGED <<valReqs, validationResult, isValidating, href>>]_vars

\* C4 witness: validateParticipant has just refused a whitespace-only name.
C4_Witness ==
    /\ name # <<>> /\ Trim(name) = <<>>
    /\ lastJoin = Ran("pressEnter", "alert: Please enter your name")

\* C11: a validation run by joinMeeting whose response is valid (and
\* carries the participant record) is followed, in the same join action and
\* with no further trigger, by the navigation to the room view.
C11_ValidateThenJoinChain ==
    [][(/\ lastJoin' = Ran("validateParticipant", "result set")
        /\ IsValid(validationResult')
        /\ The(validationResult').hasParticipant)
         => href' # None]_vars

\* C14: whenever the page navigates, the name it passes is the one the
\* backend validated (valid = true) for the text now in the name field.
C14_NavigatesWithCurrentName ==
    [][(href = None /\ href' # None)
         => /\ IsValid(validationResult)
            /\ The(validationResult).pname = Trim(name)
            /\ The(href').name = EncodeURIComponent(Trim(name))]_vars

\* ------------------------------------------------- room view: properties
\* C2: the participant collection holds at most one entry per identity.
C2_OneEntryPerIdentity ==
    \A i, j \in DOMAIN participants :
        participants[i] = participants[j] => i = j

\* Empty or whitespace-only, said without trim.
OnlySpaces(n) == \A i \in DOMAIN n : n[i] = " "

ToggleOps == {"toggleAudio", "toggleVideo"}

\* C6: a toggle whose SDK call fails leaves both displayed states as they
\* were; a displayed state changes only in the step in which its toggle's
\* call succeeded; and a toggle invoked with no session changes nothing.
C6_ToggleFlipsOnlyOnSuccess ==
    [][/\ (lastRoom'.op \in ToggleOps /\ lastRoom'.outcome = "rejected")
             => UNCHANGED <<isAudioEnabled, isVideoEnabled>>
       /\ isAudioEnabled' # isAudioEnabled
             => lastRoom' = Ran("toggleAudio", "resolved")
       /\ isVideoEnabled' # isVideoEnabled
             => lastRoom' = Ran("toggleVideo", "resolved")
       /\ (lastRoom'.op \in ToggleOps /\ roomRef = 0
              /\ lastRoom'.outcome \notin {"resolved", "rejected"})
             => UNCHANGED <<ctlVars, partVars, roomRef, rooms, pc, error,
                            isConnected, isConnecting, connectionStatus>>]_vars

\* C6 witness: the microphone is shown off and a call to switch it on failed.
C6_Witness ==
    /\ lastRoom = Ran("toggleAudio", "rejected")
    /\ ~isAudioEnabled

\* C7: every teardown (the cleanup of a mount that started connecting, or
\* leave) ends with roomRef null; with no session it changes no Room; it
\* touches no Room but the referenced one; and no Room is ever disconnected
\* more than once.
C7_TeardownIdempotent ==
    [][(lastRoom'.op = "leaveRoom"
          \/ (lastRoom'.op = "unmount" /\ ~OnlySpaces(urlName)))
         => /\ roomRef' = 0
            /\ roomRef = 0 => rooms' = rooms
            /\ \A a \in Runs : a # roomRef => rooms'[a] = rooms[a]
            /\ \A a \in Runs : rooms'[a].disconnects <= 1]_vars

\* C7 witness: leave was run a second time, right after the teardown that
\* closed the session (its Disconnected event is still to come).
C7_Witness ==
    /\ lastRoom = Ran("leaveRoom", "no session")
    /\ \E a \in Runs : rooms[a].state = "closing" /\ rooms[a].disconnects = 1

\* C8: a room view entered with an empty or whitespace-only name shows
\* 'Participant name is required' from its mount on, and never requests a
\* credential, creates a Room or connects.
C8_BlankNameFailsClosed ==
    (OnlySpaces(urlName) /\ view # "loading")
       => /\ error = Some("Participant name is required")
          /\ roomRef = 0
          /\ \A a \in Runs : pc[a] = "idle" /\ rooms[a] = NoRoom

\* C8 witness: the view was mounted with a whitespace-only name.
C8_Witness ==
    /\ urlName = <<" ">>
    /\ lastRoom = Ran("mountEffect", "name required")

\* C9: once the room view is unmounted, no session with the media service
\* is open or being opened.
C9_NoSessionAfterUnmount ==
    view = "unmounted" => \A a \in Runs : rooms[a].state \notin Open

\* C10: every session that is open or being opened is the one roomRef
\* refers to (so there is at most one).
C10_OpenSessionIsReferenced ==
    \A a \in Runs : rooms[a].state \in Open => roomRef = a

\* C12: failed is never entered once the session has been established: no
\* run of connectToRoom ends in its catch block (error set, 'Connection
\* failed') while the session it opened is connected and shown as connected.
C12_NeverConnectedAndFailed ==
    \A a \in Runs :
        ~(/\ isConnected /\ localParticipant = a /\ rooms[a].state = "connected"
          /\ pc[a] = "failed" /\ error # None)

\* The video elements the room view still holds, in the page or in the
\* registry.
Held(reg, app) == {t \in Tracks : t \in app \/ reg[TrackOwner(t)] = t}

\* C13: after a track is withdrawn, every video element still held belongs
\* to a track that is still subscribed, and every element that was held for
\* a track still subscribed is still held.
C13_WithdrawRemovesOnlyItsSurface ==
    [][lastRoom'.op = "trackUnsubscribed"
         => /\ Held(remoteVideosRef', appended') \subseteq subscribed'
            /\ (Held(remoteVideosRef, appended) \cap subscribed')
                  \subseteq Held(remoteVideosRef', appended')]_vars

\* C16: while the speaker is off, every audio element created for a remote
\* track is muted.
C16_SpeakerOffMutesAll ==
    ~isSpeakerEnabled => audioEls \subseteq audioMuted
\* C15: when the session the view refers to is connected, its setup has
\* completed and no toggle call is in flight, the displayed microphone and
\* camera states are the states the session publishes.
C15_DisplayedIsPublished ==
    (/\ view = "mounted" /\ error = None /\ isConnected
     /\ roomRef # 0 /\ toggles = <<>>)
      => \A a \in Runs :
           (roomRef = a /\ rooms[a].state = "connected" /\ pc[a] = "done")
             => /\ isAudioEnabled = published[a].mic
                /\ isVideoEnabled = published[a].cam
====
